---- MODULE Spec2Model ----
(***************************************************************************)
(* A model of uHashFS (src/uhashfs/uhashfs.py): a content addressable file *)
(* store.  Strings and paths are sequences of one-character strings, byte  *)
(* strings are sequences of integers.  The file system is a set of         *)
(* directories, a map from file paths to inodes and the bytes each inode   *)
(* holds on disk.  Every call of the store's API is a small process whose  *)
(* steps are the system calls the method makes, so that concurrent callers *)
(* interleave exactly at the points the operating system lets them.        *)
(* Permission bits (fmode, dmode, the umask around os.chmod) are left out: *)
(* they decide no outcome of a call.  assert statements are taken as       *)
(* enabled.  os.makedirs is one step: it tolerates parents that appear     *)
(* meanwhile and fails only when the leaf exists, which is what the one    *)
(* step decides.                                                           *)
(***************************************************************************)
EXTENDS Integers, Sequences, FiniteSets, TLC

(***************************************************************************)
(* Bounds of the model.                                                    *)
(***************************************************************************)
\* number of API calls in a behaviour (each one also names an inode)
NumCalls == 3
\* number of calls that may be in progress at the same time
NumConcurrent == 2
\* hex characters of a digest: 2 * digest_size of the (scaled down) hash
DigestLen == 3
\* bytes handed over by one handle.read(block_size)
BlockSize == 1

Calls == 1..NumCalls

(***************************************************************************)
(* Characters and strings.                                                 *)
(***************************************************************************)
Sep == "/"

HexChars == <<"0", "1", "2", "3", "4", "5", "6", "7",
              "8", "9", "a", "b", "c", "d", "e", "f">>

LowerHex == {HexChars[i] : i \in 1..16}
UpperHex == {"A", "B", "C", "D", "E", "F"}
HexDigits == LowerHex \cup UpperHex
Whitespace == {" "}

\* s[a:b] of Python, 0-based, end clamped to len(s)
Slice(s, a, b) ==
    LET hi == IF b < Len(s) THEN b ELSE Len(s)
    IN  IF a >= hi THEN <<>> ELSE SubSeq(s, a + 1, hi)

\* sep in s
Contains(s, c) == \E i \in 1..Len(s) : s[i] = c

Last(s) == s[Len(s)]

\* s.split(sep): the pieces between separators, empty pieces included
RECURSIVE split(_, _)
split(s, sep) ==
    IF ~Contains(s, sep) THEN <<s>>
    ELSE LET i == CHOOSE j \in 1..Len(s) :
                     s[j] = sep /\ \A m \in 1..(j - 1) : s[m] # sep
         IN  <<SubSeq(s, 1, i - 1)>> \o split(SubSeq(s, i + 1, Len(s)), sep)

\* os.path.join(a, b)
join2(a, b) ==
    IF b # <<>> /\ b[1] = Sep THEN b
    ELSE IF a = <<>> \/ Last(a) = Sep THEN a \o b
    ELSE a \o <<Sep>> \o b

\* os.path.join(root, *paths)
RECURSIVE join(_, _)
join(root, paths) ==
    IF paths = <<>> THEN root ELSE join(join2(root, Head(paths)), Tail(paths))

\* os.path.dirname(path) of an absolute path without trailing separator
dirname(path) ==
    LET idx == {j \in 1..Len(path) : path[j] = Sep}
    IN  IF idx = {} THEN <<>>
        ELSE LET i == CHOOSE j \in idx : \A m \in idx : m <= j
             IN  IF i = 1 THEN <<Sep>> ELSE SubSeq(path, 1, i - 1)

\* path and every directory above it, up to the file system root
RECURSIVE ancestors(_)
ancestors(path) ==
    IF path = <<Sep>> \/ path = <<>> THEN {<<Sep>>}
    ELSE {path} \cup ancestors(dirname(path))

(***************************************************************************)
(* hashlib, scaled down: a rolling hash of DigestLen hex characters.  The  *)
(* store only ever uses new(), update(chunk) and hexdigest().              *)
(***************************************************************************)
Modulus == 16 ^ DigestLen

hashlib_new == 5381 % Modulus

RECURSIVE update(_, _)
update(h, chunk) ==
    IF chunk = <<>> THEN h
    ELSE update((h * 33 + Head(chunk)) % Modulus, Tail(chunk))

hexdigest(h) ==
    [i \in 1..DigestLen |-> HexChars[((h \div (16 ^ (DigestLen - i))) % 16) + 1]]

\* hashlib.new(algorithm) fed with the whole of `data`
digest_of(data) == hexdigest(update(hashlib_new, data))

\* self.emptydigest
emptydigest == digest_of(<<>>)

(***************************************************************************)
(* int(digest, 16): what Python accepts as a base 16 integer literal.      *)
(* Surrounding whitespace, a sign, a 0x prefix and single underscores      *)
(* between digits are all accepted.                                        *)
(***************************************************************************)
RECURSIVE lstrip(_)
lstrip(s) == IF s # <<>> /\ Head(s) \in Whitespace THEN lstrip(Tail(s)) ELSE s

RECURSIVE rstrip(_)
rstrip(s) ==
    IF s # <<>> /\ Last(s) \in Whitespace
    THEN rstrip(SubSeq(s, 1, Len(s) - 1)) ELSE s

hex_digits_ok(t) ==
    /\ t # <<>>
    /\ Head(t) \in HexDigits
    /\ Last(t) \in HexDigits
    /\ \A i \in 1..Len(t) : t[i] \in HexDigits \cup {"_"}
    /\ \A i \in 1..(Len(t) - 1) : ~(t[i] = "_" /\ t[i + 1] = "_")

\* TRUE when int(s, 16) returns, FALSE when it raises ValueError
int16_ok(s) ==
    LET a == rstrip(lstrip(s))
        b == IF a # <<>> /\ Head(a) \in {"+", "-"} THEN Tail(a) ELSE a
        prefixed == Len(b) >= 2 /\ b[1] = "0" /\ b[2] \in {"x", "X"}
        c == IF prefixed THEN SubSeq(b, 3, Len(b)) ELSE b
        d == IF prefixed /\ c # <<>> /\ Head(c) = "_" THEN Tail(c) ELSE c
    IN  hex_digits_ok(d)

(***************************************************************************)
(* State.                                                                  *)
(***************************************************************************)
VARIABLES
    depth,      \* self.depth
    width,      \* self.width
    tmproot,    \* self.tmproot
    dirs,       \* the directories that exist
    files,      \* path of every directory entry that is a file -> its inode
    idata,      \* inode -> the bytes it holds on disk
    call,       \* call id -> the state of that call of the API
    probe       \* the last evaluation of one of the pure path functions

vars == <<depth, width, tmproot, dirs, files, idata, call, probe>>

\* self.root, resolved
root == <<Sep, "r">>

\* self.digestlen
digestlen == DigestLen

\* the exceptions, as values no path, digest or segment list can equal
ValueError == <<"ValueError">>
FileNotFoundError == <<"FileNotFoundError">>
FileExistsError == <<"FileExistsError">>
AssertionError == <<"AssertionError">>
IsADirectoryError == <<"IsADirectoryError">>
OSError == <<"OSError">>
TypeError == <<"TypeError">>
Exceptions == {ValueError, FileNotFoundError, FileExistsError, AssertionError,
               IsADirectoryError, OSError, TypeError}

(***************************************************************************)
(* Path Sharder.                                                           *)
(***************************************************************************)
\* [item for item in items if item]
compact(items) == SelectSeq(items, LAMBDA item : item # <<>>)

\* the tokens taken one character too late
shard_shifted(digest) ==
    compact([i \in 1..depth |-> Slice(digest, (i - 1) * width + 1,
                                      width * i + 1)]
            \o <<digest>>)

shard(digest) ==
    compact([i \in 1..depth |-> Slice(digest, (i - 1) * width, width * i)]
            \o <<digest>>)

digestpath(digest) ==
    IF Len(digest) # digestlen THEN ValueError
    ELSE IF ~int16_ok(digest) THEN ValueError
    ELSE join(root, shard(digest))

\* the first piece of the path in the place of the last
unshard_first(path) ==
    IF ~Contains(path, Sep) THEN ValueError
    ELSE Head(split(path, Sep))

unshard(path) ==
    IF ~Contains(path, Sep) THEN ValueError
    ELSE Last(split(path, Sep))

(***************************************************************************)
(* The file system calls the store makes.                                  *)
(***************************************************************************)
isfile(path) == path \in DOMAIN files
isdir(path) == path \in dirs
lexists(path) == isfile(path) \/ isdir(path)

\* the bytes a reader of `path` sees
read_file(path) == idata[files[path]]

\* the directory entries that name inode `ino`
links(ino) == {path \in DOMAIN files : files[path] = ino}

\* os.rename in the place of os.link: an existing dst is no error
os_rename_outcome(src, dst) ==
    IF ~isfile(src) \/ ~isdir(dirname(dst)) THEN FileNotFoundError
    ELSE <<"ok">>

\* what os.link(src, dst) raises, or "ok"
os_link_outcome(src, dst) ==
    IF ~isfile(src) \/ ~isdir(dirname(dst)) THEN FileNotFoundError
    ELSE IF lexists(dst) THEN FileExistsError
    ELSE <<"ok">>

\* the directory entries after os.link(src, dst) succeeded
os_link(src, dst) == files @@ (dst :> files[src])

\* the directory entries after os.unlink(path) / os.remove(path)
os_unlink(path) == [q \in DOMAIN files \ {path} |-> files[q]]

\* what os.makedirs(path) raises (exist_ok is False), or "ok": a parent that
\* exists or appears meanwhile is tolerated, the leaf must be new
os_makedirs_outcome(path) ==
    IF lexists(path) THEN FileExistsError ELSE <<"ok">>

\* the directories after os.makedirs(path) succeeded
os_makedirs(path) == dirs \cup ancestors(path)

\* the bytes on disk after the last link of an inode is gone
freed(ino) == [idata EXCEPT ![ino] = <<>>]

(***************************************************************************)
(* Calls of the API.  A call is idle until it is made, then walks through  *)
(* the steps of its method and ends "done" (returned) or "raised".         *)
(***************************************************************************)
NoResult == [kind |-> "none", digest |-> <<>>, abspath |-> <<>>,
             is_duplicate |-> FALSE, data |-> <<>>,
             paths |-> {}, pairs |-> {}, number |-> 0]

\* HashAddress(digest, self, abspath, is_duplicate=False)
HashAddress(digest, abspath, is_duplicate) ==
    [kind |-> "HashAddress", digest |-> digest, abspath |-> abspath,
     is_duplicate |-> is_duplicate, data |-> <<>>,
     paths |-> {}, pairs |-> {}, number |-> 0]

Raised(exc) == [NoResult EXCEPT !.kind = exc[1]]

Returned(value) == [NoResult EXCEPT !.kind = value]

\* entry is the method called; arg and start are the source handed to a
\* put (its bytes, and the offset an open handle is at) or the digest handed
\* to another method; pos is the offset of the handle being read and told
\* the local `pos` of hash_file_handle.  held, tries and missing are no
\* fields of the program: they record, for the properties below, whether
\* the store already held the bytes when a put was called, how often the
\* put called os.link, and whether its first os.link found the directory
\* missing.
IdleCall == [pc |-> "idle", op |-> "none", entry |-> "none", shape |-> "none",
             arg |-> <<>>, start |-> 0,
             pos |-> 0, told |-> 0, hasher |-> 0, buffer |-> <<>>,
             digest |-> <<>>, filepath |-> <<>>, result |-> NoResult,
             held |-> FALSE, tries |-> 0, missing |-> FALSE]

\* tmp.name: NamedTemporaryFile picks a name no other caller has
tmpname(k) == join2(tmproot, <<"_", "t", "m", "p", HexChars[k + 1]>>)

\* the call returns or raises: its locals are gone, and so is the handle
\* it opened itself; a handle the caller passed in stays where it is
finish(c, pc, result) ==
    [c EXCEPT !.pc = pc, !.result = result,
              !.pos = IF c.shape = "handle" THEN @ ELSE 0,
              !.told = 0, !.hasher = 0, !.buffer = <<>>]

Finished(k) == call[k].pc \in {"done", "raised"}

InFlight == {k \in Calls : call[k].pc \notin {"idle", "done", "raised"}}

\* calls are made in the order of their ids (the ids are only labels)
MayStart(k) ==
    /\ call[k].pc = "idle"
    /\ IF k = 1 THEN TRUE ELSE call[k - 1].pc # "idle"

-----------------------------------------------------------------------------
(***************************************************************************)
(* put: putstr (an in-memory string), putfile (a path to a file or an open *)
(* handle) and putrequest (an iterable of chunks).  The files that are put *)
(* lie outside the root, so path_is_parent never refuses them.             *)
(***************************************************************************)
\* the method that takes a source of this shape
entry_of(shape) ==
    IF shape = "str" THEN "putstr"
    ELSE IF shape = "request" THEN "putrequest"
    ELSE "putfile"

\* the bytes a put of the source (data, start) is to store: an open handle
\* is read from the offset it is at
content(data, start) == Slice(data, start, Len(data))

\* bytes(chunk, 'UTF8') of a text of code points below 2048: a code point
\* below 128 is one byte, any other one a lead byte and a continuation byte
RECURSIVE utf8(_)
utf8(text) ==
    IF text = <<>> THEN <<>>
    ELSE LET c == Head(text)
         IN  (IF c < 128 THEN <<c>>
              ELSE <<192 + (c \div 64), 128 + (c % 64)>>) \o utf8(Tail(text))

\* one byte for each code point, as bytes(chunk, 'latin-1') gives
chunk_bytes_latin1(shape, chunk) == chunk

\* computehash: if isinstance(chunk, str): chunk = bytes(chunk, 'UTF8').
\* Iterating a StringIO yields str, a handle read in 'rb' yields bytes.
chunk_bytes(shape, chunk) ==
    IF shape = "str" THEN utf8(chunk) ELSE chunk

\* the next chunk of `data` from offset `pos`: iterating a StringIO yields
\* lines, handle.read(block_size) yields blocks
next_chunk(shape, data, pos) ==
    IF shape = "str"
    THEN LET nl == {j \in (pos + 1)..Len(data) : data[j] = 10}
             end == IF nl = {} THEN Len(data)
                    ELSE CHOOSE j \in nl : \A m \in nl : j <= m
         IN  Slice(data, pos, end)
    ELSE Slice(data, pos, pos + BlockSize)

\* putstr / putfile / putrequest are called
PutStart(k, shape, data) ==
    /\ MayStart(k)
    /\ call' = [call EXCEPT ![k] = [IdleCall EXCEPT !.pc = "mktemp",
                     !.op = "put", !.entry = entry_of(shape),
                     !.shape = shape, !.arg = data,
                     !.held = isfile(digestpath(digest_of(
                         IF shape = "str" THEN utf8(data) ELSE data)))]]
    /\ UNCHANGED <<depth, width, tmproot, dirs, files, idata, probe>>

\* putfile is called with an open handle that is at offset `start`
PutHandleStart(k, data, start) ==
    /\ MayStart(k)
    /\ call' = [call EXCEPT ![k] = [IdleCall EXCEPT !.pc = "mktemp",
                     !.op = "put", !.entry = "putfile",
                     !.shape = "handle", !.arg = data,
                     !.start = start, !.pos = start,
                     !.held = isfile(digestpath(
                                  digest_of(content(data, start))))]]
    /\ UNCHANGED <<depth, width, tmproot, dirs, files, idata, probe>>

\* a put is called with something that is no source.  shape "bad" is an
\* object of a type the method cannot read (an int): io.BytesIO(string) in
\* putstr and Path(file) in putfile raise TypeError at once, putrequest
\* goes on to _mktemp.  shape "nofile" is a string that names no file,
\* handed to putfile: Path(file) accepts it.
PutBadStart(k, entry, shape) ==
    /\ MayStart(k)
    /\ shape \in {"bad", "nofile"}
    /\ shape = "nofile" => entry = "putfile"
    /\ call' = [call EXCEPT ![k] =
           IF shape = "bad" /\ entry \in {"putstr", "putfile"}
           THEN [IdleCall EXCEPT !.pc = "raised", !.op = "put",
                     !.entry = entry, !.shape = shape,
                     !.result = Raised(TypeError)]
           ELSE [IdleCall EXCEPT !.pc = "mktemp", !.op = "put",
                     !.entry = entry, !.shape = shape]]
    /\ UNCHANGED <<depth, width, tmproot, dirs, files, idata, probe>>

\* the staged file exists: hash_readable / computehash begin, and
\* hash_file_handle notes pos = handle.tell() first
hash_begin(c) ==
    [c EXCEPT !.pc = "hash", !.hasher = hashlib_new,
              !.told = IF c.shape = "handle" THEN c.pos ELSE 0]

\* _mktemp: NamedTemporaryFile(delete=False, dir=self.tmproot, prefix='_tmp')
Mktemp(k) ==
    /\ call[k].pc = "mktemp"
    /\ IF isdir(tmproot)
       THEN /\ files' = files @@ (tmpname(k) :> k)
            /\ call' = [call EXCEPT ![k] = hash_begin(@)]
       ELSE /\ files' = files
            /\ call' = [call EXCEPT ![k].pc = "mktemp_makedirs"]
    /\ UNCHANGED <<depth, width, tmproot, dirs, idata, probe>>

\* _mktemp, except FileNotFoundError: os.makedirs(self.tmproot)
MktempMakedirs(k) ==
    /\ call[k].pc = "mktemp_makedirs"
    /\ IF os_makedirs_outcome(tmproot) = <<"ok">>
       THEN /\ dirs' = os_makedirs(tmproot)
            /\ call' = [call EXCEPT ![k].pc = "mktemp_retry"]
       ELSE /\ dirs' = dirs
            /\ call' = [call EXCEPT ![k] =
                   finish(@, "raised", Raised(os_makedirs_outcome(tmproot)))]
    /\ UNCHANGED <<depth, width, tmproot, files, idata, probe>>

\* _mktemp, except FileNotFoundError: the second NamedTemporaryFile
MktempRetry(k) ==
    /\ call[k].pc = "mktemp_retry"
    /\ IF isdir(tmproot)
       THEN /\ files' = files @@ (tmpname(k) :> k)
            /\ call' = [call EXCEPT ![k] = hash_begin(@)]
       ELSE /\ files' = files
            /\ call' = [call EXCEPT ![k] =
                            finish(@, "raised", Raised(FileNotFoundError))]
    /\ UNCHANGED <<depth, width, tmproot, dirs, idata, probe>>

\* the staged file is linked without being closed first
tmp_left_open(k) == idata

\* tmp.close(): what the handle still buffers reaches the disk
tmp_close(k) == [idata EXCEPT ![k] = @ \o call[k].buffer]

\* the chunk is staged but not hashed
hasher_update_skipped(hasher, chunk) == hasher

\* hasher.update(chunk) / hashobj.update(chunk)
hasher_update(hasher, chunk) == update(hasher, chunk)

\* hash_readable / computehash, one turn of the loop: hasher.update(chunk),
\* tmp.write(chunk).  A write lands in the handle's buffer and the buffer
\* reaches the disk when the io layer decides so.
HashChunk(k) ==
    LET c == call[k]
        read == next_chunk(c.shape, c.arg, c.pos)
        chunk == chunk_bytes(c.shape, read)
    IN  /\ c.pc = "hash"
        /\ read # <<>>
        /\ \E flush \in BOOLEAN :
              /\ idata' = IF flush
                           THEN [idata EXCEPT ![k] = @ \o c.buffer \o chunk]
                           ELSE idata
              /\ call' = [call EXCEPT
                     ![k].hasher = hasher_update(c.hasher, chunk),
                     ![k].pos = c.pos + Len(read),
                     ![k].buffer = IF flush THEN <<>> ELSE c.buffer \o chunk]
        /\ UNCHANGED <<depth, width, tmproot, dirs, files, probe>>

\* the disk is full or the source fails: tmp.write(chunk) or
\* handle.read(block_size) raises OSError, which nothing in put catches
HashFails(k) ==
    LET c == call[k]
    IN  /\ c.pc = "hash"
        /\ \E flush \in BOOLEAN :
              idata' = IF flush THEN [idata EXCEPT ![k] = @ \o c.buffer]
                       ELSE idata
        /\ call' = [call EXCEPT ![k] = finish(c, "raised", Raised(OSError))]
        /\ UNCHANGED <<depth, width, tmproot, dirs, files, probe>>

\* the source cannot be read: `for chunk in stream` of computehash raises
\* TypeError on what is not iterable, open(path, 'rb') of hash_file raises
\* FileNotFoundError on a path that names no file.  Nothing in put catches
\* either, and the staged file is neither closed nor removed.
HashUnreadable(k) ==
    LET c == call[k]
    IN  /\ c.pc = "hash"
        /\ c.shape \in {"bad", "nofile"}
        /\ call' = [call EXCEPT ![k] = finish(c, "raised",
               Raised(IF c.shape = "bad" THEN TypeError
                      ELSE FileNotFoundError))]
        /\ UNCHANGED <<depth, width, tmproot, dirs, files, idata, probe>>

\* the handle is left where the reads took it
handle_not_sought(c) == c.pos

\* hash_file_handle: handle.seek(pos)
handle_seek(c) == c.told

\* the source is exhausted: tmp.close(), hasher.hexdigest(), for an open
\* handle handle.seek(pos), then filepath = self.digestpath(digest)
HashClose(k) ==
    LET c == [call[k] EXCEPT !.pos = IF call[k].shape = "handle"
                                     THEN handle_seek(call[k]) ELSE @]
        digest == hexdigest(c.hasher)
        filepath == digestpath(digest)
    IN  /\ c.pc = "hash"
        /\ c.shape \notin {"bad", "nofile"}
        /\ next_chunk(c.shape, c.arg, call[k].pos) = <<>>
        /\ idata' = tmp_close(k)
        /\ call' = [call EXCEPT ![k] =
               IF filepath \in Exceptions
               THEN finish(c, "raised", Raised(filepath))
               ELSE [c EXCEPT !.pc = "link", !.buffer = <<>>,
                              !.digest = digest, !.filepath = filepath]]
        /\ UNCHANGED <<depth, width, tmproot, dirs, files, probe>>

\* except OSError in the place of except FileExistsError: every failure
\* of os.link is taken for a duplicate
MvtempLink_any_error(k) ==
    LET c == call[k]
        outcome == os_link_outcome(tmpname(k), c.filepath)
    IN  /\ c.pc = "link"
        /\ IF outcome = <<"ok">>
           THEN /\ files' = os_link(tmpname(k), c.filepath)
                /\ call' = [call EXCEPT ![k].pc = "unlink",
                                        ![k].tries = @ + 1]
           ELSE /\ files' = files
                /\ call' = [call EXCEPT ![k].pc = "unlink_dup",
                                        ![k].tries = @ + 1]
        /\ UNCHANGED <<depth, width, tmproot, dirs, idata, probe>>

\* _mvtemp: try: os.link(tmp, filepath)
MvtempLink(k) ==
    LET c == call[k]
        outcome == os_link_outcome(tmpname(k), c.filepath)
    IN  /\ c.pc = "link"
        /\ IF outcome = <<"ok">>
           THEN /\ files' = os_link(tmpname(k), c.filepath)
                /\ call' = [call EXCEPT ![k].pc = "unlink",
                                        ![k].tries = @ + 1]
           ELSE /\ files' = files
                /\ call' = [call EXCEPT ![k].pc =
                       IF outcome = FileExistsError THEN "unlink_dup"
                       ELSE "makedirs",
                       ![k].tries = @ + 1,
                       ![k].missing = (outcome = FileNotFoundError)]
        /\ UNCHANGED <<depth, width, tmproot, dirs, idata, probe>>

\* _mvtemp, except FileExistsError: os.unlink(tmp); return True
MvtempUnlinkDup(k) ==
    LET c == call[k]
    IN  /\ c.pc = "unlink_dup"
        /\ files' = os_unlink(tmpname(k))
        /\ idata' = freed(k)
        /\ call' = [call EXCEPT ![k] =
               finish(c, "done", HashAddress(c.digest, c.filepath, TRUE))]
        /\ UNCHANGED <<depth, width, tmproot, dirs, probe>>

\* _mvtemp, except FileNotFoundError:
\* os.makedirs(os.path.dirname(filepath), self.dmode)
MvtempMakedirs(k) ==
    LET c == call[k]
        outcome == os_makedirs_outcome(dirname(c.filepath))
    IN  /\ c.pc = "makedirs"
        /\ IF outcome = <<"ok">>
           THEN /\ dirs' = os_makedirs(dirname(c.filepath))
                /\ call' = [call EXCEPT ![k].pc = "relink"]
           ELSE /\ dirs' = dirs
                /\ call' = [call EXCEPT ![k] =
                                finish(c, "raised", Raised(outcome))]
        /\ UNCHANGED <<depth, width, tmproot, files, idata, probe>>

\* _mvtemp, except FileNotFoundError: the second os.link(tmp, filepath)
MvtempRelink(k) ==
    LET c == call[k]
        outcome == os_link_outcome(tmpname(k), c.filepath)
    IN  /\ c.pc = "relink"
        /\ IF outcome = <<"ok">>
           THEN /\ files' = os_link(tmpname(k), c.filepath)
                /\ call' = [call EXCEPT ![k].pc = "unlink",
                                        ![k].tries = @ + 1]
           ELSE /\ files' = files
                /\ call' = [call EXCEPT ![k] =
                       finish([c EXCEPT !.tries = @ + 1], "raised",
                              Raised(outcome))]
        /\ UNCHANGED <<depth, width, tmproot, dirs, idata, probe>>

\* _mvtemp: os.unlink(tmp); return False, and the caller's
\* return HashAddress(digest, self, filepath, is_duplicate)
MvtempUnlink(k) ==
    LET c == call[k]
    IN  /\ c.pc = "unlink"
        /\ files' = os_unlink(tmpname(k))
        /\ call' = [call EXCEPT ![k] =
               finish(c, "done", HashAddress(c.digest, c.filepath, FALSE))]
        /\ UNCHANGED <<depth, width, tmproot, dirs, idata, probe>>

-----------------------------------------------------------------------------
(***************************************************************************)
(* get, open, exists and delete: one file system call each.                *)
(***************************************************************************)
StartsWith(s, prefix) ==
    Len(s) >= Len(prefix) /\ SubSeq(s, 1, Len(prefix)) = prefix

single(k, op, digest, result) ==
    [IdleCall EXCEPT !.op = op, !.arg = digest,
         !.pc = IF result.kind \in {e[1] : e \in Exceptions}
                THEN "raised" ELSE "done",
         !.result = result]

\* os.path.isdir in the place of os.path.isfile
get_result_isdir(digest) ==
    LET realpath == digestpath(digest)
    IN  IF realpath \in Exceptions THEN Raised(realpath)
        ELSE IF isdir(realpath) THEN HashAddress(digest, realpath, FALSE)
        ELSE Raised(FileNotFoundError)

get_result(digest) ==
    LET realpath == digestpath(digest)
    IN  IF realpath \in Exceptions THEN Raised(realpath)
        ELSE IF isfile(realpath) THEN HashAddress(digest, realpath, FALSE)
        ELSE Raised(FileNotFoundError)

Get(k, digest) ==
    /\ MayStart(k)
    /\ call' = [call EXCEPT ![k] = single(k, "get", digest, get_result(digest))]
    /\ UNCHANGED <<depth, width, tmproot, dirs, files, idata, probe>>

\* the modes open is called with: the default, and one that writes
Modes == {"rb", "wb"}

\* io.open(realpath, mode): what it returns (with the bytes a reader of it
\* is to see) or raises.  Mode 'wb' creates the file when its directory
\* exists and empties it when the file exists.
open_result(digest, mode) ==
    LET realpath == digestpath(digest)
    IN  IF realpath \in Exceptions THEN Raised(realpath)
        ELSE IF isdir(realpath) THEN Raised(IsADirectoryError)
        ELSE IF mode = "rb"
             THEN IF isfile(realpath)
                  THEN [Returned("stream") EXCEPT
                            !.data = read_file(realpath)]
                  ELSE Raised(FileNotFoundError)
        ELSE IF ~isdir(dirname(realpath)) THEN Raised(FileNotFoundError)
        ELSE Returned("stream")

\* a file that open creates is given the inode of the call's number
Open(k, digest, mode) ==
    LET result == open_result(digest, mode)
        realpath == digestpath(digest)
    IN  /\ MayStart(k)
        /\ call' = [call EXCEPT ![k] = single(k, "open", digest, result)]
        /\ IF mode = "wb" /\ result.kind = "stream"
           THEN IF isfile(realpath)
                THEN /\ files' = files
                     /\ idata' = [idata EXCEPT ![files[realpath]] = <<>>]
                ELSE /\ files' = files @@ (realpath :> k)
                     /\ idata' = [idata EXCEPT ![k] = <<>>]
           ELSE UNCHANGED <<files, idata>>
        /\ UNCHANGED <<depth, width, tmproot, dirs, probe>>

exists_result(digest) ==
    LET realpath == digestpath(digest)
    IN  IF realpath \in Exceptions THEN Raised(realpath)
        ELSE IF isfile(realpath) THEN Returned("True")
        ELSE Returned("False")

Exists(k, digest) ==
    /\ MayStart(k)
    /\ call' = [call EXCEPT ![k] =
                    single(k, "exists", digest, exists_result(digest))]
    /\ UNCHANGED <<depth, width, tmproot, dirs, files, idata, probe>>

delete_result(digest) ==
    LET realpath == digestpath(digest)
    IN  IF realpath \in Exceptions THEN Raised(realpath)
        ELSE IF ~StartsWith(realpath, root) THEN Raised(AssertionError)
        ELSE IF isfile(realpath) THEN Returned("True")
        ELSE IF isdir(realpath) THEN Raised(IsADirectoryError)
        ELSE Raised(FileNotFoundError)

\* the shard directory the file leaves empty is removed with it, as
\* os.removedirs(os.path.dirname(realpath)) would do
Delete_remove_empty(k, digest) ==
    LET result == delete_result(digest)
        realpath == digestpath(digest)
    IN  /\ MayStart(k)
        /\ call' = [call EXCEPT ![k] = single(k, "delete", digest, result)]
        /\ IF result.kind = "True"
           THEN /\ files' = os_unlink(realpath)
                /\ idata' = IF links(files[realpath]) = {realpath}
                             THEN freed(files[realpath]) ELSE idata
                /\ dirs' = IF \E q \in DOMAIN files \ {realpath} :
                                  dirname(q) = dirname(realpath)
                            THEN dirs ELSE dirs \ {dirname(realpath)}
           ELSE UNCHANGED <<files, idata, dirs>>
        /\ UNCHANGED <<depth, width, tmproot, probe>>

\* delete: os.remove(realpath); return True
Delete(k, digest) ==
    LET result == delete_result(digest)
        realpath == digestpath(digest)
    IN  /\ MayStart(k)
        /\ call' = [call EXCEPT ![k] = single(k, "delete", digest, result)]
        /\ IF result.kind = "True"
           THEN /\ files' = os_unlink(realpath)
                /\ idata' = IF links(files[realpath]) = {realpath}
                             THEN freed(files[realpath]) ELSE idata
           ELSE UNCHANGED <<files, idata>>
        /\ UNCHANGED <<depth, width, tmproot, dirs, probe>>

-----------------------------------------------------------------------------
(***************************************************************************)
(* files, corrupted, count and size: a walk of the tree under the root.    *)
(* The walk is one step: a scan that others write under sees a mixture of  *)
(* the states it passes, which no property below is about.                 *)
(***************************************************************************)
\* os.listdir in the place of os.walk: the files in the root itself
walk_top == {path \in DOMAIN files : dirname(path) = root}

\* os.walk(self.root): every file in the root or in a directory below it
walk == {path \in DOMAIN files : StartsWith(path, root \o <<Sep>>)}

files_result == [Returned("paths") EXCEPT !.paths = walk]

Files(k) ==
    /\ MayStart(k)
    /\ call' = [call EXCEPT ![k] = single(k, "files", <<>>, files_result)]
    /\ UNCHANGED <<depth, width, tmproot, dirs, files, idata, probe>>

\* the pair corrupted() yields for `path`
corrupted_pair(path) ==
    LET digest == digest_of(read_file(path))
    IN  [path |-> path,
         address |-> HashAddress(digest, digestpath(digest), FALSE)]

\* corrupted(), consumed to its end: the assert on the length of a file's
\* name ends the scan with AssertionError at the first file whose name is
\* not as long as a digest (the name of a staged file is 12 characters
\* long, here 5, and no digest is)
corrupted_result ==
    IF \E path \in walk : Len(unshard(path)) # digestlen
    THEN Raised(AssertionError)
    ELSE [Returned("pairs") EXCEPT !.pairs =
             {corrupted_pair(path) : path \in
                 {q \in walk :
                     digestpath(digest_of(read_file(q))) # q}}]

Corrupted(k) ==
    /\ MayStart(k)
    /\ call' = [call EXCEPT ![k] =
                    single(k, "corrupted", <<>>, corrupted_result)]
    /\ UNCHANGED <<depth, width, tmproot, dirs, files, idata, probe>>

\* the sum of the sizes of the files in `paths`
RECURSIVE getsize_sum(_)
getsize_sum(paths) ==
    IF paths = {} THEN 0
    ELSE LET path == CHOOSE q \in paths : TRUE
         IN  Len(read_file(path)) + getsize_sum(paths \ {path})

\* count(): the number of files that files() yields
count_result == [Returned("number") EXCEPT !.number = Cardinality(walk)]

Count(k) ==
    /\ MayStart(k)
    /\ call' = [call EXCEPT ![k] = single(k, "count", <<>>, count_result)]
    /\ UNCHANGED <<depth, width, tmproot, dirs, files, idata, probe>>

\* size(): the sum of the sizes of the files that files() yields
size_result == [Returned("number") EXCEPT !.number = getsize_sum(walk)]

Size(k) ==
    /\ MayStart(k)
    /\ call' = [call EXCEPT ![k] = single(k, "size", <<>>, size_result)]
    /\ UNCHANGED <<depth, width, tmproot, dirs, files, idata, probe>>

\* the byte that is appended to a stored file ("f")
AppendedByte == 102

\* not a method of the store: somebody opens the stored file of `digest`
\* for appending and writes a byte to it
AppendByte(k, digest) ==
    LET path == digestpath(digest)
    IN  /\ MayStart(k)
        /\ path \notin Exceptions
        /\ isfile(path)
        /\ idata' = [idata EXCEPT ![files[path]] = @ \o <<AppendedByte>>]
        /\ call' = [call EXCEPT ![k] =
                        single(k, "append", digest, Returned("None"))]
        /\ UNCHANGED <<depth, width, tmproot, dirs, files, probe>>

-----------------------------------------------------------------------------
(***************************************************************************)
(* The path functions, evaluated on an argument that a caller spells out   *)
(* character by character.                                                 *)
(***************************************************************************)
NoProbe == [fn |-> "none", arg |-> <<>>, path |-> <<>>, out |-> <<>>]

\* strings handed to the path functions
ProbeAlphabet == {"0", "a", "F", "z", "+", "_", " ", "x"}

ProbeType(c) ==
    /\ probe.fn = "none"
    /\ Len(probe.arg) < DigestLen + 1
    /\ probe' = [probe EXCEPT !.arg = @ \o <<c>>]
    /\ UNCHANGED <<depth, width, tmproot, dirs, files, idata, call>>

\* self.digestpath(arg)
ProbeDigestpath ==
    /\ probe.fn = "none"
    /\ probe' = [probe EXCEPT !.fn = "digestpath",
                              !.out = digestpath(probe.arg)]
    /\ UNCHANGED <<depth, width, tmproot, dirs, files, idata, call>>

\* self.shard(arg)
ProbeShard ==
    /\ probe.fn = "none"
    /\ probe' = [probe EXCEPT !.fn = "shard", !.out = shard(probe.arg)]
    /\ UNCHANGED <<depth, width, tmproot, dirs, files, idata, call>>

\* unshard(arg)
ProbeUnshard ==
    /\ probe.fn = "none"
    /\ probe' = [probe EXCEPT !.fn = "unshard", !.path = probe.arg,
                              !.out = unshard(probe.arg)]
    /\ UNCHANGED <<depth, width, tmproot, dirs, files, idata, call>>

\* get, open, exists or delete of arg on the store as constructed
ProbeApi(op) ==
    /\ probe.fn = "none"
    /\ probe' = [probe EXCEPT !.fn = op, !.out =
           <<CASE op = "get" -> get_result(probe.arg).kind
               [] op = "open" -> open_result(probe.arg, "rb").kind
               [] op = "exists" -> exists_result(probe.arg).kind
               [] op = "delete" -> delete_result(probe.arg).kind>>]
    /\ UNCHANGED <<depth, width, tmproot, dirs, files, idata, call>>

\* unshard(self.digestpath(arg))
ProbeUnshardDigestpath ==
    /\ probe.fn = "digestpath"
    /\ probe.out \notin Exceptions
    /\ probe' = [probe EXCEPT !.fn = "unshard", !.path = probe.out,
                              !.out = unshard(probe.out)]
    /\ UNCHANGED <<depth, width, tmproot, dirs, files, idata, call>>

-----------------------------------------------------------------------------
(***************************************************************************)
(* Inputs.                                                                 *)
(***************************************************************************)
\* depth and width the store is constructed with (both asserted > 0)
Depths == {1, 2}
Widths == {1, 2}

\* <<depth, width>> of the stores that calls are made on
StoreShapes == {<<1, 1>>, <<2, 1>>, <<2, 2>>}

\* tmproot: the store's root itself, or a directory beside it
TmpRoots == {root, <<Sep, "t">>}

\* what is put: the shape of the source and the bytes it yields
\* (97, 98 and 10 are the bytes of "a", "b" and a newline)
PutSources == {[shape |-> "file", data |-> <<>>],
               [shape |-> "file", data |-> <<97>>],
               [shape |-> "file", data |-> <<98>>],
               [shape |-> "str", data |-> <<97, 10, 98>>]}

\* open handles handed to putfile: the bytes of the file and the offset
\* the handle is at
HandleSources == {[data |-> <<97>>, start |-> 0],
                  [data |-> <<97, 98>>, start |-> 0],
                  [data |-> <<97, 98>>, start |-> 1],
                  [data |-> <<97, 98>>, start |-> 2]}

\* what is no source, and the method it is handed to
\* one content in three shapes: the text of e-acute, newline and "a" (code points 233,
\* 10, 97) handed to putstr, and a file of its UTF-8 bytes handed to
\* putfile as an open handle and as a path
SameSources == {[shape |-> "str", data |-> <<233, 10, 97>>, start |-> 0],
                [shape |-> "handle", data |-> <<195, 169, 10, 97>>,
                 start |-> 0],
                [shape |-> "file", data |-> <<195, 169, 10, 97>>,
                 start |-> 0]}

BadSources == {[entry |-> "putstr", shape |-> "bad"],
               [entry |-> "putfile", shape |-> "bad"],
               [entry |-> "putrequest", shape |-> "bad"],
               [entry |-> "putfile", shape |-> "nofile"]}

Zeros(n) == [i \in 1..n |-> "0"]

\* digests handed to get, open, exists and delete: one that a put can
\* produce, one that no put produces, and a malformed one
DigestArgs == {digest_of(<<97>>),
               Zeros(DigestLen),
               Zeros(DigestLen - 1) \o <<"z">>}

\* a malformed digest that int(digest, 16) reads as a number
SignedArgs == {<<"+">> \o Zeros(DigestLen - 1)}

-----------------------------------------------------------------------------
(***************************************************************************)
(* Specifications.                                                         *)
(***************************************************************************)
\* a store was constructed on an empty root; a tmproot other than the root
\* does not exist yet (the first put creates it)
Constructed ==
    /\ depth \in Depths
    /\ width \in Widths
    /\ tmproot \in TmpRoots
    /\ dirs = {<<Sep>>, root}
    /\ files = <<>>
    /\ idata = [k \in Calls |-> <<>>]
    /\ call = [k \in Calls |-> IdleCall]
    /\ probe = NoProbe

Init ==
    /\ Constructed
    /\ <<depth, width>> \in StoreShapes

\* the steps of the calls that are in progress
Step ==
    \E k \in Calls :
        \/ Mktemp(k)
        \/ MktempMakedirs(k)
        \/ MktempRetry(k)
        \/ HashChunk(k)
        \/ HashClose(k)
        \/ MvtempLink(k)
        \/ MvtempUnlinkDup(k)
        \/ MvtempMakedirs(k)
        \/ MvtempRelink(k)
        \/ MvtempUnlink(k)

StartPut(K) ==
    \E k \in K, src \in PutSources : PutStart(k, src.shape, src.data)

StartOther(K) ==
    \E k \in K, digest \in DigestArgs :
        \/ Get(k, digest)
        \/ Open(k, digest, "rb")
        \/ Exists(k, digest)
        \/ Delete(k, digest)

\* delete is called with a digest that carries a sign
StartDeleteSigned(K) ==
    \E k \in K, digest \in SignedArgs : Delete(k, digest)

\* the calls that run concurrently
ConcCalls == 1..NumConcurrent

\* NumConcurrent callers, one call of any kind each, in any interleaving,
\* on a disk that may fail
Next ==
    \/ StartPut(ConcCalls)
    \/ StartOther(ConcCalls)
    \/ Step
    \/ \E k \in Calls : HashFails(k)

Spec == Init /\ [][Next]_vars

\* NumConcurrent callers, one put each, in any interleaving
NextPut ==
    \/ StartPut(ConcCalls)
    \/ Step

SpecPut == Init /\ [][NextPut]_vars

\* one caller making NumCalls calls: a call is made when the one before
\* it has ended
NextSeq ==
    \/ InFlight = {} /\ (StartPut(Calls) \/ StartOther(Calls))
    \/ Step

SpecSeq == Init /\ [][NextSeq]_vars

StartPutHandle(K) ==
    \E k \in K, src \in HandleSources : PutHandleStart(k, src.data, src.start)

StartPutBad(K) ==
    \E k \in K, src \in BadSources : PutBadStart(k, src.entry, src.shape)

\* one caller making NumCalls puts, of sources of every shape and of what
\* is no source
NextSource ==
    \/ InFlight = {} /\ (\/ StartPut(Calls)
                         \/ StartPutHandle(Calls)
                         \/ StartPutBad(Calls))
    \/ Step
    \/ \E k \in Calls : HashUnreadable(k)

SpecSource == Init /\ [][NextSource]_vars

StartPutSame(K) ==
    \E k \in K, src \in SameSources :
        IF src.shape = "handle"
        THEN PutHandleStart(k, src.data, src.start)
        ELSE PutStart(k, src.shape, src.data)

\* one caller making NumCalls puts, among them puts of one content in
\* each of the three shapes
NextSame ==
    \/ InFlight = {} /\ (StartPut(Calls) \/ StartPutSame(Calls))
    \/ Step

SpecSame == Init /\ [][NextSame]_vars

StartScan(K) ==
    \E k \in K : Files(k) \/ Corrupted(k) \/ Count(k) \/ Size(k)

\* one caller making NumCalls calls, puts and scans, on a disk that may
\* fail, while stored files may be appended to behind the store's back
NextScan ==
    \/ InFlight = {} /\ (\/ StartPut(Calls)
                         \/ StartScan(Calls)
                         \/ \E k \in Calls, src \in PutSources :
                                AppendByte(k, digest_of(src.data)))
    \/ Step
    \/ \E k \in Calls : HashFails(k)

SpecScan == Init /\ [][NextScan]_vars

\* open is called with a mode other than the default
StartOpenMode(K) ==
    \E k \in K, digest \in DigestArgs, mode \in Modes \ {"rb"} :
        Open(k, digest, mode)

\* NumConcurrent callers, one call of any method each, in any interleaving
NextOps ==
    \/ StartPut(ConcCalls)
    \/ StartOther(ConcCalls)
    \/ StartOpenMode(ConcCalls)
    \/ StartDeleteSigned(ConcCalls)
    \/ StartScan(ConcCalls)
    \/ Step

SpecOps == Init /\ [][NextOps]_vars

\* a store was constructed and nothing was put
InitPath ==
    /\ Constructed
    /\ tmproot = root

\* the path functions alone
NextPath ==
    \/ \E c \in ProbeAlphabet : ProbeType(c)
    \/ ProbeDigestpath
    \/ ProbeShard
    \/ ProbeUnshard
    \/ ProbeUnshardDigestpath
    \/ \E op \in {"get", "open", "exists", "delete"} : ProbeApi(op)

SpecPath == InitPath /\ [][NextPath]_vars

-----------------------------------------------------------------------------
(***************************************************************************)
(* Properties.                                                             *)
(***************************************************************************)
IsPut(k) == call[k].op = "put"
Done(k) == call[k].pc = "done"

\* the names of the staged files
TmpNames == {tmpname(k) : k \in Calls}

\* the files of the store proper
Stored == DOMAIN files \ TmpNames

\* the put of call k has staged its file and called _mvtemp
Committed(k) == IsPut(k) /\ call[k].filepath # <<>>

\* C1: when two or more puts of identical content run concurrently, none
\* of them raises, exactly one returns is_duplicate = False and every other
\* one returns is_duplicate = True.  (Stated for the puts that reached
\* _mvtemp: what a missing tmproot does to _mktemp is another matter.)
C1_OneWriterAmongSamePuts ==
    \A data \in {src.data : src \in PutSources} :
        LET same == {k \in Calls : IsPut(k) /\ call[k].arg = data}
        IN  (/\ Cardinality(same) >= 2
             /\ \A k \in same : Finished(k) /\ Committed(k)) =>
                /\ \A k \in same : Done(k)
                /\ Cardinality({k \in same :
                                   ~call[k].result.is_duplicate}) = 1

\* C2: a put whose digest no concurrent put shares returns
\* is_duplicate = False with its blob stored, whatever the other puts do.
\* (Stated, like C1, for the puts that reached _mvtemp.)
C2_DifferentDigestsIndependent ==
    \A k \in Calls :
        (/\ Committed(k)
         /\ Finished(k)
         /\ \A j \in Calls \ {k} :
               IsPut(j) => digest_of(call[j].arg) # digest_of(call[k].arg)) =>
            /\ Done(k)
            /\ ~call[k].result.is_duplicate
            /\ isfile(digestpath(digest_of(call[k].arg)))
            /\ read_file(digestpath(digest_of(call[k].arg))) = call[k].arg

\* C3: a commit that has ended, with a new blob, a duplicate or a fatal
\* failure, has left no file at its staged path.
C3_NoStagedFileLeft ==
    \A k \in Calls : (Committed(k) /\ Finished(k)) => ~isfile(tmpname(k))

\* C4: a file that exists at digestpath(d) holds the complete bytes of a
\* put, and their digest is d, in every state: while other puts are being
\* staged and after a put has failed.
C4_FinalFileComplete ==
    \A path \in Stored :
        LET d == unshard(path)
        IN  /\ path = digestpath(d)
            /\ digest_of(read_file(path)) = d
            /\ \E k \in Calls : IsPut(k) /\ call[k].arg = read_file(path)

\* a blob of two chunks is stored while a put that failed has left a
\* partly written staged file behind
C4_Witness ==
    /\ \E path \in Stored : Len(read_file(path)) = 3
    /\ \E k \in Calls :
          /\ call[k].result.kind = "OSError"
          /\ isfile(tmpname(k))
          /\ idata[k] # <<>>
          /\ idata[k] # call[k].arg

\* C5: the store never holds two copies of the same bytes, and the one
\* copy it holds is at digestpath of the digest of those bytes.
C5_OneCopyAtDigestpath ==
    /\ \A p \in Stored : p = digestpath(digest_of(read_file(p)))
    /\ \A p, q \in Stored : read_file(p) = read_file(q) => p = q

\* the same bytes were put twice and are stored once
C5_Witness ==
    /\ \E i, j \in Calls :
          /\ i # j
          /\ IsPut(i) /\ IsPut(j)
          /\ Done(i) /\ Done(j)
          /\ call[i].arg = call[j].arg
          /\ call[i].arg # <<>>
    /\ Cardinality(Stored) = 1

\* the files whose name is `digest`
FilesNamed(digest) == {p \in DOMAIN files : unshard(p) = digest}

\* C6: on a store that does not hold c, put(c) followed by put(c) returns
\* the same digest twice, is_duplicate = False and then True, and leaves
\* exactly one file named by that digest.
C6_PutTwice ==
    \A i \in Calls \ {NumCalls} :
        (/\ IsPut(i) /\ IsPut(i + 1)
         /\ call[i].arg = call[i + 1].arg
         /\ ~call[i].held
         /\ Finished(i) /\ Finished(i + 1)) =>
            /\ Done(i) /\ Done(i + 1)
            /\ call[i].result.digest = call[i + 1].result.digest
            /\ ~call[i].result.is_duplicate
            /\ call[i + 1].result.is_duplicate
            /\ (\A m \in Calls : m > i + 1 => call[m].pc = "idle") =>
                   Cardinality(FilesNamed(call[i].result.digest)) = 1

\* the same bytes were put twice in a row, new and then duplicate, after
\* a call that put something else
C6_Witness ==
    \E i \in Calls \ {1, NumCalls} :
        /\ IsPut(i - 1) /\ IsPut(i) /\ IsPut(i + 1)
        /\ call[i - 1].arg # call[i].arg
        /\ call[i].arg = call[i + 1].arg
        /\ ~call[i].held
        /\ Done(i) /\ Done(i + 1)
        /\ call[i + 1].result.is_duplicate
        /\ Cardinality(FilesNamed(call[i].result.digest)) = 1

\* C7: put(c) followed by get(digest_of(c)), with no delete of that digest
\* in between, returns an address with the digest of the put's address and
\* a path whose last segment is that digest.
C7_GetAfterPut ==
    \A i, j \in Calls :
        (/\ i < j
         /\ IsPut(i) /\ Done(i)
         /\ call[j].op = "get" /\ Finished(j)
         /\ call[j].arg = digest_of(call[i].arg)
         /\ \A m \in Calls :
               (i < m /\ m < j) =>
                   ~(call[m].op = "delete" /\ call[m].arg = call[j].arg)) =>
            /\ Done(j)
            /\ call[j].result.kind = "HashAddress"
            /\ call[j].result.digest = call[i].result.digest
            /\ unshard(call[j].result.abspath) = call[i].result.digest

\* a get found what the call before it had put
C7_Witness ==
    \E j \in Calls \ {1} :
        /\ IsPut(j - 1) /\ Done(j - 1)
        /\ call[j].op = "get" /\ Done(j)
        /\ call[j].arg = digest_of(call[j - 1].arg)

ValidDigest(s) == Len(s) = digestlen /\ \A i \in 1..Len(s) : s[i] \in HexDigits

\* C8: digestpath raises ValueError for every string whose length is not
\* digestlen or that holds a character that is no hexadecimal digit, and
\* so do get, open, exists and delete.
C8_RejectsMalformed ==
    (probe.fn \in {"digestpath", "get", "open", "exists", "delete"}
     /\ ~ValidDigest(probe.arg)) =>
        probe.out = ValueError

\* C9 as claimed: for every depth > 0 and width > 0, shard of a valid
\* digest is depth tokens of width characters each, token i being the
\* characters [i*width, (i+1)*width) of the digest, and then the digest.
C9_ShardShapeAnyConfig ==
    (probe.fn = "shard" /\ ValidDigest(probe.arg)) =>
        /\ Len(probe.out) = depth + 1
        /\ \A i \in 1..depth :
              /\ Len(probe.out[i]) = width
              /\ probe.out[i] = [n \in 1..width |->
                                    probe.arg[(i - 1) * width + n]]
        /\ probe.out[depth + 1] = probe.arg

\* C9, amended: the same, for the configurations with
\* depth * width <= digestlen.
C9_ShardShape ==
    depth * width <= digestlen => C9_ShardShapeAnyConfig

\* a valid digest was sharded into two directory tokens
C9_Witness ==
    /\ probe.fn = "shard"
    /\ ValidDigest(probe.arg)
    /\ depth = 2
    /\ depth * width <= digestlen
    /\ probe.arg[1] # probe.arg[2]

\* C10: unshard(digestpath(d)) = d for every valid digest d, and unshard
\* raises ValueError on a path without a separator.
C10_UnshardRoundTrip ==
    probe.fn = "unshard" =>
        /\ (ValidDigest(probe.arg) /\ probe.path = digestpath(probe.arg)) =>
               probe.out = probe.arg
        /\ ~Contains(probe.path, Sep) => probe.out = ValueError

\* the path of a valid digest under two shard directories was unsharded
C10_Witness ==
    /\ probe.fn = "unshard"
    /\ ValidDigest(probe.arg)
    /\ probe.path = digestpath(probe.arg)
    /\ depth = 2
    /\ probe.out = probe.arg

\* C11: delete of a well-formed digest that is not stored raises
\* FileNotFoundError, delete of a malformed digest raises ValueError, and
\* either leaves the directories, the files and their bytes as they were.
C11_DeleteErrors ==
    [][\A k \in Calls :
          (call[k].pc = "idle" /\ call'[k].op = "delete") =>
              LET digest == call'[k].arg
                  kind == call'[k].result.kind
              IN  /\ ~ValidDigest(digest) =>
                         /\ kind = "ValueError"
                         /\ UNCHANGED <<dirs, files, idata>>
                  /\ (ValidDigest(digest) /\ ~isfile(digestpath(digest))) =>
                         /\ kind = "FileNotFoundError"
                         /\ UNCHANGED <<dirs, files, idata>>]_vars

\* C12: a put of what is no source raises, and it raises before it stages
\* anything: at no time is there a staged file of that put.
C12_BadSourceNotStaged ==
    \A k \in Calls :
        (IsPut(k) /\ call[k].shape \in {"bad", "nofile"}) =>
            /\ Finished(k) => call[k].pc = "raised"
            /\ ~isfile(tmpname(k))

\* call k is the last call that was made
Latest(k) ==
    /\ call[k].pc # "idle"
    /\ \A m \in Calls : m > k => call[m].pc = "idle"

\* the calls made before call k
Before(k) == {m \in Calls : m < k}

\* C13: corrupted() never fails; it yields exactly the files under the
\* root that are not at digestpath of the digest of their bytes, each with
\* the address of that place; after puts and nothing else it yields
\* nothing, and after puts and one append to a stored file one pair.
C13_CorruptedScan ==
    \A k \in Calls :
        (Latest(k) /\ call[k].op = "corrupted") =>
            LET appends == {m \in Before(k) : call[m].op = "append"}
                puts == {m \in Before(k) : IsPut(m) /\ Done(m)}
                pairs == call[k].result.pairs
            IN  /\ Done(k)
                /\ {pair.path : pair \in pairs} =
                       {path \in DOMAIN files :
                           /\ StartsWith(path, root \o <<Sep>>)
                           /\ path # digestpath(digest_of(read_file(path)))}
                /\ \A pair \in pairs :
                       /\ pair.address.digest = digest_of(read_file(pair.path))
                       /\ pair.address.abspath =
                              digestpath(pair.address.digest)
                /\ Before(k) = puts => pairs = {}
                /\ (Before(k) = puts \cup appends
                       /\ Cardinality(appends) = 1) =>
                          Cardinality(pairs) = 1

\* the sum of the lengths of the byte strings in S
RECURSIVE LenSum(_)
LenSum(S) ==
    IF S = {} THEN 0
    ELSE LET x == CHOOSE y \in S : TRUE IN Len(x) + LenSum(S \ {x})

Scans == {"files", "count", "size", "corrupted"}

\* C14: after puts of N distinct contents into an empty store, and nothing
\* else but scans, count() is N, size() is the sum of the lengths of the
\* contents and files() yields the N paths of the addresses the puts
\* returned.
C14_EnumerationAgrees ==
    \A k \in Calls :
        LET puts == {m \in Before(k) : IsPut(m) /\ Done(m)}
            scans == {m \in Before(k) : call[m].op \in Scans}
            contents == {call[m].arg : m \in puts}
            N == Cardinality(contents)
        IN  (Latest(k) /\ Before(k) = puts \cup scans) =>
                /\ call[k].op = "count" =>
                       Done(k) /\ call[k].result.number = N
                /\ call[k].op = "size" =>
                       Done(k) /\ call[k].result.number = LenSum(contents)
                /\ call[k].op = "files" =>
                       /\ Done(k)
                       /\ call[k].result.paths =
                              {call[m].result.abspath : m \in puts}
                       /\ Cardinality(call[k].result.paths) = N

\* two different contents were put, one of them of three bytes, and then
\* counted
C14_Witness ==
    /\ IsPut(1) /\ Done(1)
    /\ IsPut(2) /\ Done(2)
    /\ Len(call[1].arg) = 3
    /\ call[1].arg # call[2].arg
    /\ call[3].op = "count"
    /\ call[3].result.number = 2

\* C15: is_duplicate becomes True only in the address a put returns after
\* its os.link found a file at the final path, and the address a get
\* returns has is_duplicate = False.
C15_DuplicateOnlyFromPut ==
    [][\A k \in Calls :
          /\ (call'[k].result.is_duplicate /\ ~call[k].result.is_duplicate) =>
                 /\ IsPut(k)
                 /\ call[k].pc = "unlink_dup"
          /\ (call'[k].pc = "unlink_dup" /\ call[k].pc # "unlink_dup") =>
                 isfile(call[k].filepath)
          /\ (call'[k].op = "get" /\ call'[k].result.kind = "HashAddress") =>
                 ~call'[k].result.is_duplicate]_vars

\* a put returned a duplicate while a get of the same digest returned its
\* address
C15_Witness ==
    \E i, j \in Calls :
        /\ IsPut(i) /\ Done(i) /\ call[i].result.is_duplicate
        /\ call[j].op = "get" /\ Done(j)
        /\ call[j].result.digest = call[i].result.digest

\* C16: a blob that is stored stays where it is with the bytes it has
\* through every step of every method, except the step of a delete of its
\* own digest.
C16_BlobLifecycle ==
    [][\A path \in Stored :
          \/ /\ path \in DOMAIN files'
             /\ idata'[files'[path]] = read_file(path)
          \/ \E k \in Calls :
                /\ call[k].pc = "idle"
                /\ call'[k].op = "delete"
                /\ digestpath(call'[k].arg) = path]_vars

\* C17: in every state, every file under the root is named by the digest
\* of its bytes and lies at digestpath of that name, whatever tmproot is
\* and also while a put is under way.
C17_LayoutInvariant ==
    \A path \in DOMAIN files :
        StartsWith(path, root \o <<Sep>>) =>
            /\ path = digestpath(unshard(path))
            /\ unshard(path) = digest_of(read_file(path))

\* C18: a put whose first os.link found a directory of the final path
\* missing has, when it ends, called os.link exactly twice; if it returned,
\* its staged file is gone, the blob is at the final path and is_duplicate
\* is False.
C18_RetryLinkOnce ==
    \A k \in Calls :
        (IsPut(k) /\ call[k].missing /\ Finished(k)) =>
            /\ call[k].tries = 2
            /\ Done(k) =>
                   /\ ~call[k].result.is_duplicate
                   /\ ~isfile(tmpname(k))

\* C19: whether or not tmproot exists when they begin, concurrent puts
\* each get a staged file of their own, and a put raises out of _mktemp
\* only when its second NamedTemporaryFile fails (FileNotFoundError).
C19_StageCreatesRoot ==
    \A k \in Calls :
        IsPut(k) =>
            /\ (call[k].pc = "raised" /\ ~Committed(k)) =>
                   call[k].result.kind = "FileNotFoundError"
            /\ call[k].pc = "hash" =>
                   /\ isfile(tmpname(k))
                   /\ \A j \in Calls \ {k} :
                          call[j].pc = "hash" => tmpname(j) # tmpname(k)

\* C20: when a put of an open handle returns, the handle is at the offset
\* it was at when the put was called, and what the put stored is what the
\* handle yields from there.
C20_HandleOffsetRestored ==
    \A k \in Calls :
        (IsPut(k) /\ call[k].shape = "handle" /\ Done(k)) =>
            /\ call[k].pos = call[k].start
            /\ call[k].result.digest =
                   digest_of(content(call[k].arg, call[k].pos))

\* a handle in the middle of its file was put and is in the middle again,
\* with the rest of the file stored
C20_Witness ==
    \E k \in Calls :
        /\ IsPut(k) /\ call[k].shape = "handle" /\ Done(k)
        /\ call[k].start = 1
        /\ Len(call[k].arg) = 2
        /\ call[k].pos = 1
        /\ isfile(call[k].result.abspath)
        /\ read_file(call[k].result.abspath) = content(call[k].arg, 1)


\* the bytes the source of put c holds: the encoded text, or what the file
\* holds from the offset the handle was at
logical(c) ==
    IF c.shape = "str" THEN utf8(c.arg) ELSE content(c.arg, c.start)

\* C21: the digest and the final path a put returns depend on the content
\* alone, not on the shape of the source: of two completed puts of the same
\* content (as text, as an open handle, as a path) the later one returns
\* the digest and the path of the earlier one and is_duplicate = True, and
\* the first put of a content returns is_duplicate = False.
C21_ShapeIndependent ==
    \A j \in Calls :
        (IsPut(j) /\ Done(j)) =>
            LET earlier == {i \in Before(j) :
                               /\ IsPut(i) /\ Done(i)
                               /\ logical(call[i]) = logical(call[j])}
            IN  /\ call[j].result.digest = digest_of(logical(call[j]))
                /\ call[j].result.is_duplicate = (earlier # {})
                /\ \A i \in earlier :
                       /\ call[i].result.digest = call[j].result.digest
                       /\ call[i].result.abspath = call[j].result.abspath

\* one content was put as text, then as an open handle, then as a path
C21_Witness ==
    /\ \A k \in 1..3 : IsPut(k) /\ Done(k)
    /\ call[1].shape = "str" /\ call[2].shape = "handle"
    /\ call[3].shape = "file"
    /\ call[1].arg # call[2].arg
    /\ logical(call[1]) = logical(call[2])
    /\ logical(call[2]) = logical(call[3])
    /\ call[1].result.digest = call[3].result.digest
    /\ ~call[1].result.is_duplicate
    /\ call[2].result.is_duplicate /\ call[3].result.is_duplicate


\* what a call made after the successful delete of a digest, and before any
\* later put of content of that digest, finds
C22_AfterDelete ==
    \A i, j \in Calls :
        LET d == call[i].arg
        IN  (/\ i < j
             /\ call[i].op = "delete" /\ call[i].result.kind = "True"
             /\ Finished(j)
             /\ \A m \in Calls :
                   (i < m /\ m < j) =>
                       ~(IsPut(m) /\ digest_of(logical(call[m])) = d)) =>
                /\ (call[j].op = "exists" /\ call[j].arg = d) =>
                       call[j].result = Returned("False")
                /\ (call[j].op = "get" /\ call[j].arg = d) =>
                       call[j].result = Raised(FileNotFoundError)
                /\ (IsPut(j) /\ digest_of(logical(call[j])) = d) =>
                       /\ Done(j)
                       /\ call[j].result.digest = d
                       /\ ~call[j].result.is_duplicate

====
